---- MODULE Spec2Model ----
(***************************************************************************)
(* SQLStorageEngine (eva/storage/sqlite_storage_engine.py): a table        *)
(* storage engine over a relational store.  The state is the in-memory     *)
(* schema registry (BaseModel.metadata.tables), the relations of the       *)
(* store, the one lazy read iterator the caller holds, and the outcome of  *)
(* the last engine call.                                                   *)
(***************************************************************************)
EXTENDS Integers, Sequences, FiniteSets, TLC

VARIABLES metadata, db, gen, last

vars == <<metadata, db, gen, last>>

(***************************************************************************)
(* Bounds                                                                  *)
(***************************************************************************)
\* rows (and the largest identifier) a relation holds
MaxRows == 3

(***************************************************************************)
(* Values.  Every Python value is a record of the same four fields, so     *)
(* that any two values can be compared.                                    *)
(***************************************************************************)
PyInt(n) == [kind |-> "int", dtype |-> "", shape |-> <<>>, data |-> <<n>>]

NpInt(n) == [kind |-> "np", dtype |-> "int64", shape |-> <<>>, data |-> <<n>>]

NdArray(shape, data) == [kind |-> "ndarray", dtype |-> "int64", shape |-> shape, data |-> data]

PyBytes(b) == [kind |-> "bytes", dtype |-> "", shape |-> <<>>, data |-> b]

\* SQL NULL / Python None
PyNone == [kind |-> "none", dtype |-> "", shape |-> <<>>, data |-> <<>>]

\* numpy.generic.tolist(): a numpy scalar becomes the plain Python scalar
tolist(v) == [kind |-> "int", dtype |-> "", shape |-> <<>>, data |-> v.data]

\* isinstance(v, (np.generic,))
IsNpGeneric(v) == v.kind = "np"

\* Python's == on two values: scalars compare by number whatever their
\* wrapper, everything else by type, dtype, shape and content
PyEq(a, b) ==
    IF a.kind \in {"int", "np"} /\ b.kind \in {"int", "np"}
    THEN a.data = b.data
    ELSE a = b

(***************************************************************************)
(* PickleSerializer (eva.utils.generic_utils): a reversible binary         *)
(* encoding, type tag + dtype + rank + shape + payload.                    *)
(***************************************************************************)
KindCodes == <<"int", "np", "ndarray", "bytes", "none">>

DtypeCodes == <<"", "int64">>

CodeOf(codes, s) == CHOOSE i \in 1..Len(codes) : codes[i] = s

serialize(v) ==
    PyBytes(<<CodeOf(KindCodes, v.kind), CodeOf(DtypeCodes, v.dtype), Len(v.shape)>>
            \o v.shape \o v.data)

\* pickle.loads raises TypeError on anything that is not a bytes object
CanDeserialize(v) == v.kind = "bytes" /\ Len(v.data) >= 3

deserialize(v) ==
    LET b == v.data
        rank == b[3]
    IN  [kind |-> KindCodes[b[1]],
         dtype |-> DtypeCodes[b[2]],
         shape |-> SubSeq(b, 4, 3 + rank),
         data |-> SubSeq(b, 4 + rank, Len(b))]

(***************************************************************************)
(* Table descriptors (DataFrameMetadata), supplied by the catalog on every *)
(* call: a name and an ordered list of typed columns.  TableT lists the    *)
(* identifier column first, TableU and TableL do not list it.              *)
(***************************************************************************)
IDENTIFIER_COLUMN == "_row_id"

Column(name, type) == [name |-> name, type |-> type]

TableT ==
    [name |-> "T",
     columns |-> <<Column(IDENTIFIER_COLUMN, "INTEGER"), Column("col_a", "INTEGER"),
                   Column("col_b", "NDARRAY")>>]

TableU == [name |-> "U", columns |-> <<Column("col_c", "INTEGER")>>]

\* T described by its logical columns alone, the identifier column left to
\* the engine
TableL ==
    [name |-> "T", columns |-> <<Column("col_a", "INTEGER"), Column("col_b", "NDARRAY")>>]

Tables == {TableT, TableU, TableL}

\* the descriptors handed to drop, write and delete, which use of a
\* descriptor its name and its columns other than the identifier: TableL is
\* to them the same argument as TableT
Targets == {TableT, TableU}

Range(s) == {s[i] : i \in DOMAIN s}

ColumnNames(columns) == {columns[i].name : i \in DOMAIN columns}

\* [col for col in columns if col.name != name]
RECURSIVE ColumnsExcept(_, _)
ColumnsExcept(columns, name) ==
    IF columns = <<>> THEN <<>>
    ELSE (IF Head(columns).name # name THEN <<Head(columns)>> ELSE <<>>)
         \o ColumnsExcept(Tail(columns), name)

\* table_columns = [col for col in table.columns if col.name != IDENTIFIER_COLUMN]
NonIdentifierColumns(table) == ColumnsExcept(table.columns, IDENTIFIER_COLUMN)

\* SchemaUtils.xform_to_sqlalchemy_schema: an array column becomes a binary
\* blob column, a scalar column the matching scalar column
PhysicalType(type) == IF type = "NDARRAY" THEN "LargeBinary" ELSE "Integer"

xform_to_sqlalchemy_schema(columns) ==
    [i \in DOMAIN columns |-> Column(columns[i].name, PhysicalType(columns[i].type))]

\* the Table object of the dynamically built class: BaseModel's primary key
\* _row_id first, then the derived columns
NewTable(table) ==
    [name |-> table.name,
     columns |-> <<Column(IDENTIFIER_COLUMN, "Integer")>>
                 \o xform_to_sqlalchemy_schema(NonIdentifierColumns(table))]

(***************************************************************************)
(* Dictionaries: functions whose domain is the set of keys.                *)
(***************************************************************************)
Put(d, k, v) == [x \in DOMAIN d \cup {k} |-> IF x = k THEN v ELSE d[x]]

Remove(d, k) == [x \in DOMAIN d \ {k} |-> d[x]]

EmptyDict == [x \in {} |-> PyNone]

(***************************************************************************)
(* Where a store interaction of a call fails, if it does: none, the        *)
(* statement (DDL, insert, select, delete) or the commit.                  *)
(***************************************************************************)
Faults == {"none", "stmt", "commit"}

\* what a call hands back to the action applying it
Outcome(md, store, raised, trace, keys) ==
    [metadata |-> md, db |-> store, raised |-> raised, trace |-> trace, keys |-> keys]

(***************************************************************************)
(* create                                                                  *)
(***************************************************************************)
\* a create that checks first and skips an existing relation (checkfirst),
\* returning normally
create_checkfirst(md, store, table, fault) ==
    LET new_table == NewTable(table)
        registered == Put(md, table.name, new_table)
    IN  IF table.name \in DOMAIN store
        THEN Outcome(registered, store, "", <<"commit">>, {})
        ELSE IF fault = "stmt"
        THEN Outcome(registered, store, "StoreError", <<>>, {})
        ELSE LET created == Put(store, table.name, [columns |-> new_table.columns, rows |-> <<>>])
             IN  IF fault = "commit"
                 THEN Outcome(registered, created, "StoreError", <<"create">>, {})
                 ELSE Outcome(registered, created, "", <<"create", "commit">>, {})

create(md, store, table, fault) ==
    LET new_table == NewTable(table)
        registered == Put(md, table.name, new_table)
    IN  IF table.name \in DOMAIN md
        THEN \* the declarative class cannot be built: the name is already
             \* defined in the metadata
             Outcome(md, store, "SchemaConflict", <<>>, {})
        ELSE IF table.name \in DOMAIN store
        THEN Outcome(registered, store, "SchemaConflict", <<>>, {})
        ELSE IF fault = "stmt"
        THEN Outcome(registered, store, "StoreError", <<>>, {})
        ELSE LET created == Put(store, table.name, [columns |-> new_table.columns, rows |-> <<>>])
             IN  IF fault = "commit"
                 THEN Outcome(registered, created, "StoreError", <<"create">>, {})
                 ELSE Outcome(registered, created, "", <<"create", "commit">>, {})

(***************************************************************************)
(* drop: the whole body is inside try/except Exception, which logs.        *)
(***************************************************************************)
drop_body(md, store, table, fault) ==
    IF table.name \notin DOMAIN md
    THEN Outcome(md, store, "KeyError", <<>>, {})
    ELSE IF table.name \notin DOMAIN store \/ fault = "stmt"
    THEN Outcome(md, store, "StoreError", <<>>, {})
    ELSE LET dropped == Remove(store, table.name)
             removed == Remove(md, table.name)
         IN  IF fault = "commit"
             THEN Outcome(removed, dropped, "StoreError", <<"drop">>, {})
             ELSE Outcome(removed, dropped, "", <<"drop", "commit">>, {})

\* a drop whose handle lookup is outside the try block
drop_propagating(md, store, table, fault) ==
    LET body == drop_body(md, store, table, fault)
    IN  IF body.raised \notin {"", "KeyError"}
        THEN Outcome(body.metadata, body.db, "", Append(body.trace, "log"), {})
        ELSE body

drop(md, store, table, fault) ==
    LET body == drop_body(md, store, table, fault)
    IN  IF body.raised # ""
        THEN Outcome(body.metadata, body.db, "", Append(body.trace, "log"), {})
        ELSE body

(***************************************************************************)
(* rename                                                                  *)
(***************************************************************************)
\* a rename that moves the relation and its handle to the new name and
\* commits, as the body left in comments would
rename_applied(md, store, old_table, new_name) ==
    IF old_table.name \in DOMAIN md /\ old_table.name \in DOMAIN store
       /\ new_name \notin DOMAIN md \cup DOMAIN store
    THEN Outcome(Put(Remove(md, old_table.name), new_name,
                     [md[old_table.name] EXCEPT !.name = new_name]),
                 Put(Remove(store, old_table.name), new_name, store[old_table.name]),
                 "", <<"commit">>, {})
    ELSE Outcome(md, store, "UnsupportedOperation", <<>>, {})

rename(md, store, old_table, new_name) ==
    Outcome(md, store, "UnsupportedOperation", <<>>, {})

(***************************************************************************)
(* The store's relations: physical columns and rows; a row is a tuple with *)
(* one value per physical column, the identifier first.                    *)
(***************************************************************************)
ColumnIndex(columns, name) == CHOOSE i \in DOMAIN columns : columns[i].name = name

RowIds(rows) == {rows[i][1].data[1] : i \in DOMAIN rows}

\* the key the store assigns to a row inserted without one: one more than
\* the largest key present
NextRowId(rows) ==
    IF rows = <<>> THEN 1
    ELSE 1 + (CHOOSE m \in RowIds(rows) : \A n \in RowIds(rows) : n <= m)

\* one row of a bulk insert: a key handed in is taken as the row's key, a
\* missing key is assigned, any other missing column is NULL
InsertedRow(columns, rows, values) ==
    [i \in DOMAIN columns |->
        IF columns[i].name \in DOMAIN values THEN values[columns[i].name]
        ELSE IF columns[i].name = IDENTIFIER_COLUMN THEN PyInt(NextRowId(rows))
        ELSE PyNone]

\* engine.execute(table.insert(), data) on the rows of a relation: the rows
\* after the statement, or the rows as they were with ok = FALSE when the
\* statement is rejected (a primary key used twice)
RECURSIVE InsertAll(_, _, _)
InsertAll(columns, rows, data) ==
    IF data = <<>> THEN [ok |-> TRUE, rows |-> rows]
    ELSE LET row == InsertedRow(columns, rows, Head(data))
         IN  IF row[1].data[1] \in RowIds(rows)
             THEN [ok |-> FALSE, rows |-> rows]
             ELSE InsertAll(columns, Append(rows, row), Tail(data))

\* the insert statement as a whole: rejected when the relation does not
\* exist, when a key of the data names no column of the table, or when a row
\* is rejected; a rejected statement leaves the relation as it was
ExecuteInsert(store, new_table, data) ==
    IF new_table.name \notin DOMAIN store
       \/ ~(DOMAIN data[1] \subseteq ColumnNames(new_table.columns))
    THEN [ok |-> FALSE, db |-> store]
    ELSE LET rel == store[new_table.name]
             res == InsertAll(rel.columns, rel.rows, data)
         IN  IF res.ok
             THEN [ok |-> TRUE, db |-> [store EXCEPT ![new_table.name].rows = res.rows]]
             ELSE [ok |-> FALSE, db |-> store]

(***************************************************************************)
(* Row codec                                                               *)
(***************************************************************************)
\* _dict_to_sql_row: dict_row[col.name] raises KeyError when the batch has
\* no column of that name
RECURSIVE dict_to_sql_row(_, _)
dict_to_sql_row(dict_row, columns) ==
    IF columns = <<>> THEN [raised |-> "", row |-> dict_row]
    ELSE LET col == Head(columns)
         IN  IF col.name \notin DOMAIN dict_row
             THEN [raised |-> "KeyError", row |-> dict_row]
             ELSE IF col.type = "NDARRAY"
             THEN dict_to_sql_row([dict_row EXCEPT ![col.name] = serialize(@)], Tail(columns))
             ELSE IF IsNpGeneric(dict_row[col.name])
             THEN dict_to_sql_row([dict_row EXCEPT ![col.name] = tolist(@)], Tail(columns))
             ELSE dict_to_sql_row(dict_row, Tail(columns))

\* _sql_row_to_dict: sql_row[idx] raises IndexError past the end of the
\* physical row, deserialize raises TypeError on a value that is not bytes
RECURSIVE sql_row_to_dict_from(_, _, _, _)
sql_row_to_dict_from(sql_row, columns, idx, dict_row) ==
    IF idx > Len(columns) THEN [raised |-> "", row |-> dict_row]
    ELSE LET col == columns[idx]
         IN  IF idx > Len(sql_row)
             THEN [raised |-> "IndexError", row |-> dict_row]
             ELSE IF col.type = "NDARRAY"
             THEN IF CanDeserialize(sql_row[idx])
                  THEN sql_row_to_dict_from(sql_row, columns, idx + 1,
                                            Put(dict_row, col.name, deserialize(sql_row[idx])))
                  ELSE [raised |-> "TypeError", row |-> dict_row]
             ELSE sql_row_to_dict_from(sql_row, columns, idx + 1,
                                       Put(dict_row, col.name, sql_row[idx]))

sql_row_to_dict(sql_row, columns) == sql_row_to_dict_from(sql_row, columns, 1, EmptyDict)

(***************************************************************************)
(* write                                                                   *)
(***************************************************************************)
\* row_data = {col: record[idx] for idx, col in enumerate(columns)}
RowData(columns, record) ==
    [c \in Range(columns) |-> record[CHOOSE i \in DOMAIN columns : columns[i] = c]]

\* the loop over rows.frames.values: the encoded rows, or the first error
RECURSIVE EncodeAll(_, _, _, _)
EncodeAll(columns, records, table_columns, data) ==
    IF records = <<>> THEN [raised |-> "", data |-> data]
    ELSE LET enc == dict_to_sql_row(RowData(columns, Head(records)), table_columns)
         IN  IF enc.raised # "" THEN [raised |-> enc.raised, data |-> data]
             ELSE EncodeAll(columns, Tail(records), table_columns, Append(data, enc.row))

\* a write that commits the session before it executes the insert
write_commit_first(md, store, table, rows, fault) ==
    IF table.name \notin DOMAIN md
    THEN Outcome(md, store, "KeyError", <<>>, {})
    ELSE LET new_table == md[table.name]
             table_columns == NonIdentifierColumns(table)
             enc == EncodeAll(rows.columns, rows.values, table_columns, <<>>)
         IN  IF enc.raised # ""
             THEN Outcome(md, store, enc.raised, <<>>, {})
             ELSE LET keys == DOMAIN enc.data[1]
                      ins == ExecuteInsert(store, new_table, enc.data)
                  IN  IF fault = "commit"
                      THEN Outcome(md, store, "StoreError", <<>>, keys)
                      ELSE IF fault = "stmt" \/ ~ins.ok
                      THEN Outcome(md, store, "StoreError", <<"commit">>, keys)
                      ELSE Outcome(md, ins.db, "", <<"commit", "insert">>, keys)

\* the rows of a relation after inserting data row by row up to the first
\* rejected row
RECURSIVE InsertUntilRejected(_, _, _)
InsertUntilRejected(columns, rows, data) ==
    IF data = <<>> THEN rows
    ELSE LET row == InsertedRow(columns, rows, Head(data))
         IN  IF row[1].data[1] \in RowIds(rows) THEN rows
             ELSE InsertUntilRejected(columns, Append(rows, row), Tail(data))

\* a write that executes one insert per row instead of one bulk insert: the
\* rows before a rejected row stay in the relation
write_row_by_row(md, store, table, rows, fault) ==
    IF table.name \notin DOMAIN md
    THEN Outcome(md, store, "KeyError", <<>>, {})
    ELSE LET new_table == md[table.name]
             table_columns == NonIdentifierColumns(table)
             enc == EncodeAll(rows.columns, rows.values, table_columns, <<>>)
         IN  IF enc.raised # ""
             THEN Outcome(md, store, enc.raised, <<>>, {})
             ELSE LET keys == DOMAIN enc.data[1]
                      ins == ExecuteInsert(store, new_table, enc.data)
                  IN  IF fault = "stmt" \/ new_table.name \notin DOMAIN store
                         \/ ~(keys \subseteq ColumnNames(new_table.columns))
                      THEN Outcome(md, store, "StoreError", <<>>, keys)
                      ELSE IF ~ins.ok
                      THEN LET rel == store[new_table.name]
                               partial == InsertUntilRejected(rel.columns, rel.rows, enc.data)
                           IN  Outcome(md, [store EXCEPT ![new_table.name].rows = partial],
                                       "StoreError", <<>>, keys)
                      ELSE IF fault = "commit"
                      THEN Outcome(md, ins.db, "StoreError", <<"insert">>, keys)
                      ELSE Outcome(md, ins.db, "", <<"insert", "commit">>, keys)

write(md, store, table, rows, fault) ==
    IF table.name \notin DOMAIN md
    THEN Outcome(md, store, "KeyError", <<>>, {})
    ELSE LET new_table == md[table.name]
             table_columns == NonIdentifierColumns(table)
             enc == EncodeAll(rows.columns, rows.values, table_columns, <<>>)
         IN  IF enc.raised # ""
             THEN Outcome(md, store, enc.raised, <<>>, {})
             ELSE LET keys == DOMAIN enc.data[1]
                      ins == ExecuteInsert(store, new_table, enc.data)
                  IN  IF fault = "stmt" \/ ~ins.ok
                      THEN Outcome(md, store, "StoreError", <<>>, keys)
                      ELSE IF fault = "commit"
                      THEN Outcome(md, ins.db, "StoreError", <<"insert">>, keys)
                      ELSE Outcome(md, ins.db, "", <<"insert", "commit">>, keys)

(***************************************************************************)
(* delete                                                                  *)
(***************************************************************************)
\* where_clause is a dict: a sequence of (column, value) pairs with distinct
\* columns, in insertion order
RECURSIVE FirstUnknown(_, _)
FirstUnknown(where_clause, table_columns) ==
    IF where_clause = <<>> THEN ""
    ELSE IF Head(where_clause)[1] \notin table_columns THEN Head(where_clause)[1]
    ELSE FirstUnknown(Tail(where_clause), table_columns)

\* and_(*filter_clause) on one physical row
Matches(columns, row, where_clause) ==
    \A i \in DOMAIN where_clause :
        PyEq(row[ColumnIndex(columns, where_clause[i][1])], where_clause[i][2])

RECURSIVE RowsNotMatching(_, _, _)
RowsNotMatching(columns, rows, where_clause) ==
    IF rows = <<>> THEN <<>>
    ELSE (IF Matches(columns, Head(rows), where_clause) THEN <<>> ELSE <<Head(rows)>>)
         \o RowsNotMatching(columns, Tail(rows), where_clause)

\* or_(*filter_clause) on one physical row
MatchesAny(columns, row, where_clause) ==
    \E i \in DOMAIN where_clause :
        PyEq(row[ColumnIndex(columns, where_clause[i][1])], where_clause[i][2])

RECURSIVE RowsNotMatchingAny(_, _, _)
RowsNotMatchingAny(columns, rows, where_clause) ==
    IF rows = <<>> THEN <<>>
    ELSE (IF MatchesAny(columns, Head(rows), where_clause) THEN <<>> ELSE <<Head(rows)>>)
         \o RowsNotMatchingAny(columns, Tail(rows), where_clause)

\* a delete that joins the pairs of the predicate with or instead of and
delete_disjunctive(md, store, table, where_clause, fault) ==
    IF table.name \notin DOMAIN md
    THEN Outcome(md, store, "KeyError", <<>>, {})
    ELSE LET sqlite_table == md[table.name]
             table_columns == ColumnNames(ColumnsExcept(sqlite_table.columns, "_row_id"))
         IN  IF FirstUnknown(where_clause, table_columns) # ""
             THEN Outcome(md, store, "InvalidPredicateColumn", <<>>, {})
             ELSE IF table.name \notin DOMAIN store \/ fault = "stmt"
             THEN Outcome(md, store, "StoreError", <<>>, {})
             ELSE LET rel == store[table.name]
                      left == RowsNotMatchingAny(rel.columns, rel.rows, where_clause)
                      deleted == [store EXCEPT ![table.name].rows = left]
                  IN  IF fault = "commit"
                      THEN Outcome(md, deleted, "StoreError", <<"delete">>, {})
                      ELSE Outcome(md, deleted, "", <<"delete", "commit">>, {})

\* the pairs of a predicate whose column the table has
RECURSIVE KnownPairs(_, _)
KnownPairs(where_clause, table_columns) ==
    IF where_clause = <<>> THEN <<>>
    ELSE (IF Head(where_clause)[1] \in table_columns THEN <<Head(where_clause)>> ELSE <<>>)
         \o KnownPairs(Tail(where_clause), table_columns)

\* a delete that skips the pairs naming an unknown column instead of raising
delete_ignoring_unknown(md, store, table, where_clause, fault) ==
    IF table.name \notin DOMAIN md
    THEN Outcome(md, store, "KeyError", <<>>, {})
    ELSE LET sqlite_table == md[table.name]
             table_columns == ColumnNames(ColumnsExcept(sqlite_table.columns, "_row_id"))
             known == KnownPairs(where_clause, table_columns)
         IN  IF table.name \notin DOMAIN store \/ fault = "stmt"
             THEN Outcome(md, store, "StoreError", <<>>, {})
             ELSE LET rel == store[table.name]
                      left == RowsNotMatching(rel.columns, rel.rows, known)
                      deleted == [store EXCEPT ![table.name].rows = left]
                  IN  IF fault = "commit"
                      THEN Outcome(md, deleted, "StoreError", <<"delete">>, {})
                      ELSE Outcome(md, deleted, "", <<"delete", "commit">>, {})

\* a delete that checks the predicate against every column of the handle,
\* the identifier column included
delete_with_identifier(md, store, table, where_clause, fault) ==
    IF table.name \notin DOMAIN md
    THEN Outcome(md, store, "KeyError", <<>>, {})
    ELSE LET sqlite_table == md[table.name]
             table_columns == ColumnNames(sqlite_table.columns)
         IN  IF FirstUnknown(where_clause, table_columns) # ""
             THEN Outcome(md, store, "InvalidPredicateColumn", <<>>, {})
             ELSE IF table.name \notin DOMAIN store \/ fault = "stmt"
             THEN Outcome(md, store, "StoreError", <<>>, {})
             ELSE LET rel == store[table.name]
                      left == RowsNotMatching(rel.columns, rel.rows, where_clause)
                      deleted == [store EXCEPT ![table.name].rows = left]
                  IN  IF fault = "commit"
                      THEN Outcome(md, deleted, "StoreError", <<"delete">>, {})
                      ELSE Outcome(md, deleted, "", <<"delete", "commit">>, {})

delete(md, store, table, where_clause, fault) ==
    IF table.name \notin DOMAIN md
    THEN Outcome(md, store, "KeyError", <<>>, {})
    ELSE LET sqlite_table == md[table.name]
             table_columns == ColumnNames(ColumnsExcept(sqlite_table.columns, "_row_id"))
         IN  IF FirstUnknown(where_clause, table_columns) # ""
             THEN Outcome(md, store, "InvalidPredicateColumn", <<>>, {})
             ELSE IF table.name \notin DOMAIN store \/ fault = "stmt"
             THEN Outcome(md, store, "StoreError", <<>>, {})
             ELSE LET rel == store[table.name]
                      left == RowsNotMatching(rel.columns, rel.rows, where_clause)
                      deleted == [store EXCEPT ![table.name].rows = left]
                  IN  IF fault = "commit"
                      THEN Outcome(md, deleted, "StoreError", <<"delete">>, {})
                      ELSE Outcome(md, deleted, "", <<"delete", "commit">>, {})

(***************************************************************************)
(* read: a generator.  Calling read builds the iterator and runs nothing;  *)
(* each request for the next batch runs the body up to the next yield.     *)
(***************************************************************************)
NoTable == [name |-> "", columns |-> <<>>]

\* the iterator the caller holds: where the body is suspended, its
\* arguments, the rows the cursor has yet to hand out, the rows of the whole
\* select, the row size measured (0: not measured yet), the batches yielded
\* and the exception that ended it
Generator(status, table, batch_mem_size, result, scan, row_size, batches, raised) ==
    [status |-> status, table |-> table, batch_mem_size |-> batch_mem_size,
     result |-> result, scan |-> scan, row_size |-> row_size, batches |-> batches,
     raised |-> raised]

NoGenerator == Generator("none", NoTable, 0, <<>>, <<>>, 0, <<>>, "")

\* get_size (eva.utils.generic_utils): the in-memory size of the accumulated
\* rows, here one unit per value plus its rank and its payload
ValueSize(v) == 1 + Len(v.shape) + Len(v.data)

RECURSIVE DictSize(_, _)
DictSize(dict_row, keys) ==
    IF keys = {} THEN 0
    ELSE LET k == CHOOSE k \in keys : TRUE
         IN  ValueSize(dict_row[k]) + DictSize(dict_row, keys \ {k})

RECURSIVE get_size(_)
get_size(data_batch) ==
    IF data_batch = <<>> THEN 0
    ELSE DictSize(Head(data_batch), DOMAIN Head(data_batch)) + get_size(Tail(data_batch))

\* the loop with the threshold test written > instead of >=
RECURSIVE read_loop_strict(_, _, _)
read_loop_strict(g, result, data_batch) ==
    IF result = <<>>
    THEN IF data_batch # <<>>
         THEN [g EXCEPT !.status = "final", !.result = <<>>,
                        !.batches = Append(@, data_batch)]
         ELSE [g EXCEPT !.status = "done", !.result = <<>>]
    ELSE LET dec == sql_row_to_dict(Head(result), g.table.columns)
             batch == Append(data_batch, dec.row)
             row_size == IF g.row_size = 0 THEN get_size(batch) ELSE g.row_size
         IN  IF dec.raised # ""
             THEN [g EXCEPT !.status = "failed", !.raised = dec.raised]
             ELSE IF Len(batch) * row_size > g.batch_mem_size
             THEN [g EXCEPT !.status = "suspended", !.result = Tail(result),
                            !.row_size = row_size, !.batches = Append(@, batch)]
             ELSE read_loop_strict([g EXCEPT !.row_size = row_size], Tail(result), batch)

\* the loop without the test  if data_batch:  before the last yield
RECURSIVE read_loop_unguarded(_, _, _)
read_loop_unguarded(g, result, data_batch) ==
    IF result = <<>>
    THEN [g EXCEPT !.status = "final", !.result = <<>>, !.batches = Append(@, data_batch)]
    ELSE LET dec == sql_row_to_dict(Head(result), g.table.columns)
             batch == Append(data_batch, dec.row)
             row_size == IF g.row_size = 0 THEN get_size(batch) ELSE g.row_size
         IN  IF dec.raised # ""
             THEN [g EXCEPT !.status = "failed", !.raised = dec.raised]
             ELSE IF Len(batch) * row_size >= g.batch_mem_size
             THEN [g EXCEPT !.status = "suspended", !.result = Tail(result),
                            !.row_size = row_size, !.batches = Append(@, batch)]
             ELSE read_loop_unguarded([g EXCEPT !.row_size = row_size], Tail(result), batch)

\* the loop measuring the row size again at the first row of every batch
RECURSIVE read_loop_remeasuring(_, _, _)
read_loop_remeasuring(g, result, data_batch) ==
    IF result = <<>>
    THEN IF data_batch # <<>>
         THEN [g EXCEPT !.status = "final", !.result = <<>>,
                        !.batches = Append(@, data_batch)]
         ELSE [g EXCEPT !.status = "done", !.result = <<>>]
    ELSE LET dec == sql_row_to_dict(Head(result), g.table.columns)
             batch == Append(data_batch, dec.row)
             row_size == IF Len(batch) = 1 THEN get_size(batch) ELSE g.row_size
         IN  IF dec.raised # ""
             THEN [g EXCEPT !.status = "failed", !.raised = dec.raised]
             ELSE IF Len(batch) * row_size >= g.batch_mem_size
             THEN [g EXCEPT !.status = "suspended", !.result = Tail(result),
                            !.row_size = row_size, !.batches = Append(@, batch)]
             ELSE read_loop_remeasuring([g EXCEPT !.row_size = row_size], Tail(result), batch)

\* the for loop of read from its current position to its next yield, to the
\* end of the function or to the exception that leaves it
RECURSIVE read_loop(_, _, _)
read_loop(g, result, data_batch) ==
    IF result = <<>>
    THEN IF data_batch # <<>>
         THEN [g EXCEPT !.status = "final", !.result = <<>>,
                        !.batches = Append(@, data_batch)]
         ELSE [g EXCEPT !.status = "done", !.result = <<>>]
    ELSE LET dec == sql_row_to_dict(Head(result), g.table.columns)
             batch == Append(data_batch, dec.row)
             row_size == IF g.row_size = 0 THEN get_size(batch) ELSE g.row_size
         IN  IF dec.raised # ""
             THEN [g EXCEPT !.status = "failed", !.raised = dec.raised]
             ELSE IF Len(batch) * row_size >= g.batch_mem_size
             THEN [g EXCEPT !.status = "suspended", !.result = Tail(result),
                            !.row_size = row_size, !.batches = Append(@, batch)]
             ELSE read_loop([g EXCEPT !.row_size = row_size], Tail(result), batch)

\* read(table, batch_mem_size): the call itself only builds the iterator
\* a read that looks the handle up and runs the select when it is called
read_eager(table, batch_mem_size) ==
    IF table.name \notin DOMAIN metadata
    THEN Generator("failed", table, batch_mem_size, <<>>, <<>>, 0, <<>>, "KeyError")
    ELSE IF table.name \notin DOMAIN db
    THEN Generator("failed", table, batch_mem_size, <<>>, <<>>, 0, <<>>, "StoreError")
    ELSE Generator("created", table, batch_mem_size,
                   db[table.name].rows, db[table.name].rows, 0, <<>>, "")

read(table, batch_mem_size) ==
    Generator("created", table, batch_mem_size, <<>>, <<>>, 0, <<>>, "")

\* the body of read up to the loop: the handle lookup and the select
read_start(md, store, g, fault) ==
    IF g.table.name \notin DOMAIN md
    THEN [g EXCEPT !.status = "failed", !.raised = "KeyError"]
    ELSE IF g.table.name \notin DOMAIN store \/ fault = "stmt"
    THEN [g EXCEPT !.status = "failed", !.raised = "StoreError"]
    ELSE LET rows == store[g.table.name].rows
         IN  read_loop([g EXCEPT !.scan = rows], rows, <<>>)

\* next(iterator)
read_next(md, store, g, fault) ==
    IF g.status = "created" THEN read_start(md, store, g, fault)
    ELSE IF g.status = "suspended" THEN read_loop(g, g.result, <<>>)
    ELSE [g EXCEPT !.status = "done"]

(***************************************************************************)
(* Inputs                                                                  *)
(***************************************************************************)
Array22 == NdArray(<<2, 2>>, <<1, 2, 3, 4>>)

Array4 == NdArray(<<4>>, <<1, 2, 3, 4>>)

\* the rows callers write, as (column -> value); a batch carries some of
\* the columns
SampleRow1 ==
    [c \in {"_row_id", "col_a", "col_b", "col_c"} |->
        CASE c = "_row_id" -> PyInt(2)
          [] c = "col_a" -> NpInt(5)
          [] c = "col_b" -> Array22
          [] c = "col_c" -> NpInt(7)]

SampleRow2 ==
    [c \in {"_row_id", "col_a", "col_b", "col_c"} |->
        CASE c = "_row_id" -> PyInt(3)
          [] c = "col_a" -> PyInt(7)
          [] c = "col_b" -> Array4
          [] c = "col_c" -> PyInt(7)]

BatchRows ==
    { <<SampleRow1>>, <<SampleRow2>>, <<SampleRow1, SampleRow2>>, <<SampleRow2, SampleRow2>> }

\* the column lists of the batches (rows.frames.keys())
Layouts ==
    { <<"col_a", "col_b">>, <<"col_b", "col_a">>, <<"_row_id", "col_a", "col_b">>,
      <<"col_a">>, <<"col_c">>, <<"col_a", "col_b", "col_c">> }

Batch(columns, rows) ==
    [columns |-> columns,
     values |-> [i \in DOMAIN rows |-> [j \in DOMAIN columns |-> rows[i][columns[j]]]]]

Batches == { Batch(columns, rows) : columns \in Layouts, rows \in BatchRows }

\* the predicates handed to delete: (column, value) pairs in insertion order
WhereClauses ==
    { <<>>,
      <<<<"_row_id", PyInt(1)>>>>, <<<<"col_a", PyInt(5)>>>>, <<<<"col_a", PyInt(7)>>>>,
      <<<<"col_b", serialize(Array4)>>>>, <<<<"col_c", PyInt(7)>>>>,
      <<<<"col_a", PyInt(5)>>, <<"col_b", serialize(Array4)>>>>,
      <<<<"col_a", PyInt(7)>>, <<"col_b", serialize(Array4)>>>>,
      <<<<"col_a", PyInt(5)>>, <<"col_c", PyInt(7)>>>>,
      <<<<"col_c", PyInt(7)>>, <<"col_a", PyInt(5)>>>>,
      <<<<"col_c", PyInt(7)>>, <<"col_b", serialize(Array4)>>>>,
      <<<<"col_a", PyInt(7)>>, <<"_row_id", PyInt(1)>>>> }

Ceilings == {0, 4, 11}

\* the names handed to rename
NewNames == {"T", "U", "V"}

(***************************************************************************)
(* State machine                                                           *)
(***************************************************************************)
\* the outcome of the last engine call: the exception that left it ("" when
\* it returned) and the store statements and commits it performed
Last(op, name, raised, trace) == [op |-> op, name |-> name, raised |-> raised, trace |-> trace]

Init ==
    /\ metadata = [n \in {} |-> NoTable]
    /\ db = [n \in {} |-> [columns |-> <<>>, rows |-> <<>>]]
    /\ gen = NoGenerator
    /\ last = Last("none", "", "", <<>>)

\* the caller holds one iterator at a time and finishes or drops it before
\* its next engine call: the store's answer to a relation changed under an
\* open cursor is not defined by the engine
NoScanOpen == gen.status = "none"

\* the relations stay within the bounds of the model
WithinBounds(store) ==
    \A n \in DOMAIN store :
        /\ Len(store[n].rows) <= MaxRows
        /\ \A id \in RowIds(store[n].rows) : id <= MaxRows

\* one engine call returning or raising: its effect on the cache and the store
Call(op, name, out) ==
    /\ WithinBounds(out.db)
    /\ metadata' = out.metadata
    /\ db' = out.db
    /\ last' = Last(op, name, out.raised, out.trace)
    /\ UNCHANGED gen

Apply(op, name, out) ==
    /\ NoScanOpen
    /\ Call(op, name, out)

Create(table, fault) == Apply("create", table.name, create(metadata, db, table, fault))

Drop(table, fault) == Apply("drop", table.name, drop(metadata, db, table, fault))

Write(table, rows, fault) == Apply("write", table.name, write(metadata, db, table, rows, fault))

Delete(table, where_clause, fault) ==
    Apply("delete", table.name, delete(metadata, db, table, where_clause, fault))

Rename(old_table, new_name) ==
    Apply("rename", old_table.name, rename(metadata, db, old_table, new_name))

ReadCall(table, batch_mem_size) ==
    /\ gen.status = "none"
    /\ gen' = read(table, batch_mem_size)
    /\ last' = Last("read", table.name, "", <<>>)
    /\ UNCHANGED <<metadata, db>>

ReadNext(fault) ==
    /\ gen.status \in {"created", "suspended", "final"}
    /\ gen' = read_next(metadata, db, gen, fault)
    /\ last' = Last("next", gen.table.name, gen'.raised, <<>>)
    /\ UNCHANGED <<metadata, db>>

ReadClose ==
    /\ gen.status # "none"
    /\ gen' = NoGenerator
    /\ UNCHANGED <<metadata, db, last>>

Next ==
    \/ \E table \in Tables, fault \in Faults : Create(table, fault)
    \/ \E table \in Targets, fault \in Faults : Drop(table, fault)
    \/ \E table \in Targets, rows \in Batches, fault \in Faults : Write(table, rows, fault)
    \/ \E table \in Targets, where_clause \in WhereClauses, fault \in Faults :
          Delete(table, where_clause, fault)
    \/ \E old_table \in Tables, new_name \in NewNames : Rename(old_table, new_name)
    \/ \E table \in Tables, batch_mem_size \in Ceilings : ReadCall(table, batch_mem_size)
    \/ \E fault \in {"none", "stmt"} : ReadNext(fault)
    \/ ReadClose

Spec == Init /\ [][Next]_vars

(***************************************************************************)
(* The engine with calls interleaved between read(...) and the first       *)
(* next(...): the iterator exists but its body has not started.            *)
(***************************************************************************)
ScanNotStarted == gen.status \in {"none", "created"}

\* the rows and the keys of a relation of this specification
MaxRowsLazy == 2

WithinLazyBounds(store) ==
    \A n \in DOMAIN store :
        /\ Len(store[n].rows) <= MaxRowsLazy
        /\ \A id \in RowIds(store[n].rows) : id <= MaxRowsLazy

ApplyLazy(op, name, out) ==
    /\ ScanNotStarted
    /\ WithinLazyBounds(out.db)
    /\ Call(op, name, out)

NextLazy ==
    \/ \E table \in Tables, fault \in Faults :
          ApplyLazy("create", table.name, create(metadata, db, table, fault))
    \/ \E table \in Targets, fault \in Faults :
          ApplyLazy("drop", table.name, drop(metadata, db, table, fault))
    \/ \E table \in Targets, rows \in Batches, fault \in Faults :
          ApplyLazy("write", table.name, write(metadata, db, table, rows, fault))
    \/ \E table \in Targets, where_clause \in WhereClauses, fault \in Faults :
          ApplyLazy("delete", table.name, delete(metadata, db, table, where_clause, fault))
    \/ \E table \in Tables, batch_mem_size \in Ceilings : ReadCall(table, batch_mem_size)
    \/ \E fault \in {"none", "stmt"} : ReadNext(fault)
    \/ ReadClose

SpecLazy == Init /\ [][NextLazy]_vars

(***************************************************************************)
(* Auxiliary definitions of the properties                                 *)
(***************************************************************************)
\* the iterator run to its end without a store failure
RECURSIVE Drain(_, _, _)
Drain(md, store, g) ==
    IF g.status \in {"done", "failed"} THEN g
    ELSE Drain(md, store, read_next(md, store, g, "none"))

\* the rows of a sequence of batches, in yield order
RECURSIVE Flatten(_)
Flatten(batches) ==
    IF batches = <<>> THEN <<>> ELSE Head(batches) \o Flatten(Tail(batches))

\* the scan of the iterator has started without an exception
Scanning == gen.status \in {"suspended", "final", "done"}

\* the iterator is suspended at a yield: every batch is yielded in such a
\* state
AtYield == gen.status \in {"suspended", "final"}

\* the batches the loop yielded at the threshold: all of them, but the one
\* yielded after the loop when the scan ended with rows left over
ThresholdBatches ==
    IF gen.status = "final" THEN SubSeq(gen.batches, 1, Len(gen.batches) - 1)
    ELSE gen.batches

\* every decoded row of the scan has the same size
UniformRows ==
    \A i, j \in DOMAIN Flatten(gen.batches) :
        get_size(<<Flatten(gen.batches)[i]>>) = get_size(<<Flatten(gen.batches)[j]>>)

(***************************************************************************)
(* C1  Round trip: every row read back after a write has, for every        *)
(* non-identifier column of the table, the value that was written.         *)
(***************************************************************************)
C1_RoundTrip ==
    \A table \in Tables, rows \in Batches, batch_mem_size \in Ceilings :
        LET out == write(metadata, db, table, rows, "none")
        IN  out.raised = "" =>
            LET g == Drain(out.metadata, out.db, read(table, batch_mem_size))
                flat == Flatten(g.batches)
                n == Len(out.db[table.name].rows)
                k == Len(rows.values)
                names == ColumnNames(NonIdentifierColumns(table))
            IN  \A j \in DOMAIN flat :
                    j > n - k =>
                    \A c \in names :
                        /\ c \in DOMAIN flat[j]
                        /\ PyEq(flat[j][c], RowData(rows.columns, rows.values[j - (n - k)])[c])

(***************************************************************************)
(* C2  Batch-size bound, as claimed: every batch but possibly the last     *)
(* reaches the ceiling, and would not reach it with one row fewer.         *)
(***************************************************************************)
C2_BatchBoundAsClaimed ==
    (Scanning /\ UniformRows) =>
        \A i \in DOMAIN gen.batches :
            i < Len(gen.batches) =>
                /\ Len(gen.batches[i]) * gen.row_size >= gen.batch_mem_size
                /\ (Len(gen.batches[i]) - 1) * gen.row_size < gen.batch_mem_size

(***************************************************************************)
(* C2  Batch-size bound, amended: every batch yielded inside the loop      *)
(* reaches the ceiling, and either holds a single row or would not reach   *)
(* the ceiling with one row fewer.                                         *)
(***************************************************************************)
C2_BatchBound ==
    AtYield =>
        \A i \in DOMAIN ThresholdBatches :
            LET row_count == Len(ThresholdBatches[i])
            IN  /\ row_count * gen.row_size >= gen.batch_mem_size
                /\ row_count = 1 \/ (row_count - 1) * gen.row_size < gen.batch_mem_size

C2_Witness ==
    /\ gen.status = "suspended"
    /\ gen.batch_mem_size > 0
    /\ Len(gen.batches) = 1
    /\ Len(gen.batches[1]) = 2
    /\ gen.result # <<>>

(***************************************************************************)
(* C3  Empty table: a scan of a relation without rows yields no batch and  *)
(* ends at the first request; it never yields an empty batch.              *)
(***************************************************************************)
C3_EmptyTable ==
    /\ (Scanning /\ gen.scan = <<>>) => (gen.status = "done" /\ gen.batches = <<>>)
    /\ \A i \in DOMAIN gen.batches : gen.batches[i] # <<>>

C3_Witness ==
    /\ gen.status = "done"
    /\ gen.table.name \in DOMAIN db
    /\ db[gen.table.name].rows = <<>>
    /\ gen.scan = <<>>
    /\ gen.batch_mem_size = 0

(***************************************************************************)
(* C4  Predicate validation precedes mutation: a delete on a cached table  *)
(* whose predicate names a column the table does not have raises           *)
(* InvalidPredicateColumn, issues no statement and no commit, and leaves   *)
(* the rows and the schema cache as they were.                             *)
(***************************************************************************)
HasUnknownColumn(where_clause, sqlite_table) ==
    \E i \in DOMAIN where_clause :
        where_clause[i][1] \notin ColumnNames(sqlite_table.columns)

C4_ValidationPrecedesMutation ==
    \A table \in Tables, where_clause \in WhereClauses, fault \in Faults :
        (/\ table.name \in DOMAIN metadata
         /\ HasUnknownColumn(where_clause, metadata[table.name])) =>
            LET out == delete(metadata, db, table, where_clause, fault)
            IN  /\ out.raised = "InvalidPredicateColumn"
                /\ out.trace = <<>>
                /\ out.db = db
                /\ out.metadata = metadata

\* a delete has just been refused on a table with a row that the valid part
\* of a mixed predicate (col_a = 5 and the unknown col_c = 7) matches
C4_Witness ==
    /\ last.op = "delete"
    /\ last.raised = "InvalidPredicateColumn"
    /\ last.name = "T"
    /\ "T" \in DOMAIN db
    /\ \E i \in DOMAIN db["T"].rows : db["T"].rows[i][2] = PyInt(5)
    /\ HasUnknownColumn(<<<<"col_a", PyInt(5)>>, <<"col_c", PyInt(7)>>>>, metadata["T"])

(***************************************************************************)
(* C5  Identifier exclusion on write: the rows handed to the bulk insert   *)
(* never carry the identifier column, and every row a write stores has the *)
(* key the store assigns (one more than the largest key before it).        *)
(***************************************************************************)
C5_IdentifierExclusion ==
    \A table \in Tables, rows \in Batches :
        LET out == write(metadata, db, table, rows, "none")
        IN  /\ IDENTIFIER_COLUMN \notin out.keys
            /\ out.raised = "" =>
                  LET before == db[table.name].rows
                      after == out.db[table.name].rows
                  IN  \A j \in DOMAIN after :
                          j > Len(before) =>
                              after[j][1] = PyInt(NextRowId(SubSeq(after, 1, j - 1)))

(***************************************************************************)
(* C6  Identifier presence on read: every row of every batch has the       *)
(* identifier column and the table's logical columns, no other, and each   *)
(* name holds the decoded physical value of the column of that name.       *)
(***************************************************************************)
\* the value read decodes from a physical value of a column of this type
DecodedValue(v, physical_type) ==
    IF physical_type = "LargeBinary" THEN deserialize(v) ELSE v

C6_IdentifierPresence ==
    Scanning =>
        LET flat == Flatten(gen.batches)
            physical == db[gen.table.name].columns
        IN  \A j \in DOMAIN flat :
                /\ DOMAIN flat[j] =
                      {IDENTIFIER_COLUMN} \cup ColumnNames(NonIdentifierColumns(gen.table))
                /\ \A c \in DOMAIN flat[j] \cap ColumnNames(physical) :
                      LET idx == ColumnIndex(physical, c)
                      IN  flat[j][c] = DecodedValue(gen.scan[j][idx], physical[idx].type)

(***************************************************************************)
(* C7  Drop erases the cached handle: after a drop of a name has returned, *)
(* the schema cache holds no handle for that name.                         *)
(***************************************************************************)
C7_DropErasesHandle == last.op = "drop" => last.name \notin DOMAIN metadata

(***************************************************************************)
(* C8  Drop is best-effort: drop returns normally in every state, for      *)
(* every table and wherever the store fails.                               *)
(***************************************************************************)
C8_DropBestEffort ==
    /\ last.op = "drop" => last.raised = ""
    /\ \A table \in Tables, fault \in Faults : drop(metadata, db, table, fault).raised = ""

\* a drop has returned after swallowing an error: the handle is cached and
\* the store has no such relation
C8_Witness ==
    /\ last.op = "drop"
    /\ last.raised = ""
    /\ last.trace = <<"log">>
    /\ last.name \in DOMAIN metadata
    /\ last.name \notin DOMAIN db

(***************************************************************************)
(* C9  Duplicate create: create on a name whose table exists raises        *)
(* SchemaConflict, performs no statement and no commit, and leaves the     *)
(* relation, its rows and the cached handle as they were.                  *)
(***************************************************************************)
C9_DuplicateCreate ==
    \A table \in Tables, fault \in Faults :
        (table.name \in DOMAIN db /\ table.name \in DOMAIN metadata) =>
            LET out == create(metadata, db, table, fault)
            IN  /\ out.raised = "SchemaConflict"
                /\ out.trace = <<>>
                /\ out.db = db
                /\ out.metadata = metadata

C9_Witness ==
    /\ last.op = "create"
    /\ last.raised = "SchemaConflict"
    /\ last.name \in DOMAIN db
    /\ db[last.name].rows # <<>>

(***************************************************************************)
(* C10  Rename never succeeds: every rename raises UnsupportedOperation    *)
(* and performs no statement, no commit and no change of the store or of   *)
(* the schema cache.                                                       *)
(***************************************************************************)
C10_RenameNeverSucceeds ==
    \A old_table \in Tables, new_name \in NewNames :
        LET out == rename(metadata, db, old_table, new_name)
        IN  /\ out.raised = "UnsupportedOperation"
            /\ out.trace = <<>>
            /\ out.db = db
            /\ out.metadata = metadata

C10_Witness ==
    /\ last.op = "rename"
    /\ last.raised = "UnsupportedOperation"
    /\ last.name \in DOMAIN db
    /\ db[last.name].rows # <<>>

(***************************************************************************)
(* C11  Commit discipline: a create, write or delete that returns has      *)
(* performed its store statement and then exactly one commit, the commit   *)
(* last; one that raises without having completed its store statement has  *)
(* performed no commit.                                                    *)
(***************************************************************************)
\* how often a step occurs in the trace of a call
RECURSIVE Count(_, _)
Count(trace, step) ==
    IF trace = <<>> THEN 0
    ELSE (IF Head(trace) = step THEN 1 ELSE 0) + Count(Tail(trace), step)

CommitDiscipline(out, statement) ==
    /\ out.raised = "" =>
          /\ Count(out.trace, "commit") = 1
          /\ out.trace = <<statement, "commit">>
    /\ (out.raised # "" /\ Count(out.trace, statement) = 0) =>
          Count(out.trace, "commit") = 0

C11_CommitDiscipline ==
    /\ \A table \in Tables, fault \in Faults :
          CommitDiscipline(create(metadata, db, table, fault), "create")
    /\ \A table \in Targets, rows \in Batches, fault \in Faults :
          CommitDiscipline(write(metadata, db, table, rows, fault), "insert")
    /\ \A table \in Targets, where_clause \in WhereClauses, fault \in Faults :
          CommitDiscipline(delete(metadata, db, table, where_clause, fault), "delete")

\* a write has just stored rows and committed once
C11_Witness ==
    /\ last.op = "write"
    /\ last.raised = ""
    /\ last.trace = <<"insert", "commit">>
    /\ db[last.name].rows # <<>>

(***************************************************************************)
(* C12  End-to-end scenario: from an empty store, create T(col_a: int,     *)
(* col_b: array), write the row (col_a = 5, col_b = [[1,2],[3,4]]); a read *)
(* yields one batch holding the one row (_row_id = 1, col_a = 5,           *)
(* col_b = [[1,2],[3,4]]); after delete(T, col_a = 5) a read yields no     *)
(* batch.                                                                  *)
(***************************************************************************)
ScenarioRow == [c \in {"col_a", "col_b"} |-> IF c = "col_a" THEN PyInt(5) ELSE Array22]

ScenarioRead ==
    [c \in {"_row_id", "col_a", "col_b"} |->
        CASE c = "_row_id" -> PyInt(1)
          [] c = "col_a" -> PyInt(5)
          [] c = "col_b" -> Array22]

EndToEnd(table, batch_mem_size) ==
    LET created == create(metadata, db, table, "none")
        written == write(created.metadata, created.db, table,
                         Batch(<<"col_a", "col_b">>, <<ScenarioRow>>), "none")
        first == Drain(written.metadata, written.db, read(table, batch_mem_size))
        deleted == delete(written.metadata, written.db, table,
                          <<<<"col_a", PyInt(5)>>>>, "none")
        second == Drain(deleted.metadata, deleted.db, read(table, batch_mem_size))
    IN  /\ created.raised = ""
        /\ written.raised = ""
        /\ first.status = "done"
        /\ first.batches = <<<<ScenarioRead>>>>
        /\ deleted.raised = ""
        /\ second.status = "done"
        /\ second.batches = <<>>

EmptyStore == DOMAIN metadata = {} /\ DOMAIN db = {}

C12_EndToEnd ==
    EmptyStore => \A batch_mem_size \in Ceilings : EndToEnd(TableL, batch_mem_size)

(***************************************************************************)
(* C13  Conjunctive delete: a delete, with no store failure, on a cached   *)
(* and existing table removes exactly the rows that hold the required      *)
(* value in every column of the predicate, and changes no other row of     *)
(* that table, no other table and no handle.                               *)
(***************************************************************************)
\* the row holds the required value in the column of every pair
HoldsEveryPair(columns, row, where_clause) ==
    \A i \in DOMAIN where_clause :
        row[ColumnIndex(columns, where_clause[i][1])] = where_clause[i][2]

RowsLeft(rel, where_clause) ==
    {rel.rows[i] : i \in {j \in DOMAIN rel.rows :
                            ~HoldsEveryPair(rel.columns, rel.rows[j], where_clause)}}

RemovesExactlyTheMatches(table, where_clause) ==
    LET out == delete(metadata, db, table, where_clause, "none")
        rel == db[table.name]
    IN  /\ out.metadata = metadata
        /\ DOMAIN out.db = DOMAIN db
        /\ \A n \in DOMAIN db \ {table.name} : out.db[n] = db[n]
        /\ out.db[table.name].columns = rel.columns
        /\ Range(out.db[table.name].rows) = RowsLeft(rel, where_clause)
        /\ Len(out.db[table.name].rows) = Cardinality(RowsLeft(rel, where_clause))

Existing(table) == table.name \in DOMAIN metadata /\ table.name \in DOMAIN db

WhereColumnsOf(where_clause) == {where_clause[i][1] : i \in DOMAIN where_clause}

\* as claimed: for every predicate whose columns are columns of the table
C13_ConjunctiveDeleteAsClaimed ==
    \A table \in Tables, where_clause \in WhereClauses :
        (/\ Existing(table)
         /\ WhereColumnsOf(where_clause) \subseteq ColumnNames(db[table.name].columns)) =>
            RemovesExactlyTheMatches(table, where_clause)

\* amended: for every predicate whose columns are columns of the table other
\* than the identifier column
C13_ConjunctiveDelete ==
    \A table \in Tables, where_clause \in WhereClauses :
        (/\ Existing(table)
         /\ WhereColumnsOf(where_clause)
               \subseteq ColumnNames(db[table.name].columns) \ {IDENTIFIER_COLUMN}) =>
            /\ delete(metadata, db, table, where_clause, "none").raised = ""
            /\ RemovesExactlyTheMatches(table, where_clause)

\* a delete has returned and left, of the rows of T, the one stored second
\* (col_a = 7), with rows in U
C13_Witness ==
    /\ last.op = "delete"
    /\ last.raised = ""
    /\ last.name = "T"
    /\ "T" \in DOMAIN db /\ "U" \in DOMAIN db
    /\ db["T"].rows = <<<<PyInt(2), PyInt(7), serialize(Array4)>>>>
    /\ db["U"].rows # <<>>

(***************************************************************************)
(* C14  Read partitions the scan: the batches of one read, concatenated in *)
(* yield order, are the decoded rows of the scan in scan order, each once; *)
(* no batch is empty; once the iterator has ended every row of the scan    *)
(* has been yielded, and a further request yields nothing.                 *)
(***************************************************************************)
\* the scan has started: the select has been executed
ScanStarted == gen.status \in {"suspended", "final", "done", "failed"}

\* the rows yielded so far are the decoded rows of a prefix of the scan
YieldedPrefix ==
    LET flat == Flatten(gen.batches)
    IN  /\ Len(flat) <= Len(gen.scan)
        /\ \A j \in DOMAIN flat :
              flat[j] = sql_row_to_dict(gen.scan[j], gen.table.columns).row

C14_ReadPartitions ==
    /\ \A i \in DOMAIN gen.batches : gen.batches[i] # <<>>
    /\ ScanStarted => YieldedPrefix
    /\ AtYield => Len(Flatten(gen.batches)) + Len(gen.result) = Len(gen.scan)
    /\ gen.status \in {"done", "failed"} =>
          /\ Len(Flatten(gen.batches)) = Len(gen.scan)
          /\ \A fault \in Faults :
                read_next(metadata, db, gen, fault).batches = gen.batches

(***************************************************************************)
(* C15  Fixed row-size estimate: the estimate of a scan is the size        *)
(* measured with the first row alone in the accumulator and stays that     *)
(* value; for a positive ceiling every batch yielded in the loop has the   *)
(* same number of rows and the leftover batch has at most that number.     *)
(***************************************************************************)
C15_FixedEstimate ==
    AtYield =>
        /\ gen.row_size = get_size(<<Flatten(gen.batches)[1]>>)
        /\ gen.batch_mem_size > 0 =>
              /\ \A i, j \in DOMAIN ThresholdBatches :
                    Len(ThresholdBatches[i]) = Len(ThresholdBatches[j])
              /\ \A i \in DOMAIN gen.batches :
                    Len(gen.batches[i]) <= Len(gen.batches[1])

\* two batches yielded at the threshold over rows of different sizes: the
\* first row is smaller than the third
C15_Witness ==
    /\ gen.status = "suspended"
    /\ gen.batch_mem_size > 0
    /\ Len(gen.batches) = 2
    /\ gen.result = <<>>
    /\ get_size(<<gen.batches[1][1]>>) # get_size(<<gen.batches[2][1]>>)

(***************************************************************************)
(* C16  Cache/store consistency: a handle is cached for a name exactly     *)
(* when the store holds a relation of that name.                           *)
(***************************************************************************)
C16_CacheStoreConsistency == DOMAIN metadata = DOMAIN db

(***************************************************************************)
(* C17  Failed write is all-or-nothing: a write that raises because the    *)
(* handle is missing, a row does not encode or the store rejects the       *)
(* insert persists no row, commits nothing, and a read afterwards sees the *)
(* rows it saw before.                                                     *)
(***************************************************************************)
\* the failures of the insert statement and of everything before it
WriteFaults == {"none", "stmt"}

\* what a read of the table yields, one row to a batch
ReadOf(md, store, table) == Drain(md, store, read(table, 0))

\* the outcomes of the writes to a table that raise
FailedWrites(table) ==
    { out \in { write(metadata, db, table, rows, fault) :
                    rows \in Batches, fault \in WriteFaults } : out.raised # "" }

C17_FailedWriteAllOrNothing ==
    \A table \in Targets :
        \A out \in FailedWrites(table) :
            /\ out.db = db
            /\ out.metadata = metadata
            /\ Count(out.trace, "commit") = 0
            /\ ReadOf(out.metadata, out.db, table) = ReadOf(metadata, db, table)

\* a write rejected by the store on a relation that holds rows
C17_Witness ==
    /\ last.op = "write"
    /\ last.raised = "StoreError"
    /\ last.trace = <<>>
    /\ last.name \in DOMAIN db
    /\ Len(db[last.name].rows) > 1

(***************************************************************************)
(* C18  Delete by identifier is rejected: on a cached table whose relation *)
(* has the identifier column, a predicate naming it raises                 *)
(* InvalidPredicateColumn and no row is deleted.                           *)
(***************************************************************************)
C18_DeleteByIdentifierRejected ==
    \A table \in Tables, where_clause \in WhereClauses, fault \in Faults :
        ( /\ table.name \in DOMAIN metadata
          /\ IDENTIFIER_COLUMN \in ColumnNames(metadata[table.name].columns)
          /\ IDENTIFIER_COLUMN \in WhereColumnsOf(where_clause) ) =>
            LET out == delete(metadata, db, table, where_clause, fault)
            IN  /\ out.raised = "InvalidPredicateColumn"
                /\ out.trace = <<>>
                /\ out.db = db
                /\ out.metadata = metadata

\* a rejected delete on T while T holds the row whose identifier is 1
C18_Witness ==
    /\ last.op = "delete"
    /\ last.name = "T"
    /\ last.raised = "InvalidPredicateColumn"
    /\ "T" \in DOMAIN db
    /\ 1 \in RowIds(db["T"].rows)

(***************************************************************************)
(* C19  Deferred scan start: the read call itself looks nothing up, asks   *)
(* the store nothing and never raises; the first request for a batch does  *)
(* the lookup and the select, so it raises KeyError when no handle is      *)
(* cached then, and it scans the rows the relation holds then.             *)
(***************************************************************************)
\* the iterator as the call leaves it: nothing selected, nothing raised
Untouched ==
    /\ gen.result = <<>>
    /\ gen.scan = <<>>
    /\ gen.row_size = 0
    /\ gen.batches = <<>>
    /\ gen.raised = ""

C19_DeferredScanStart ==
    /\ last.op = "read" => gen.status \in {"none", "created"}
    /\ gen.status = "created" =>
          /\ Untouched
          /\ \A fault \in {"none", "stmt"} :
                LET first == read_next(metadata, db, gen, fault)
                IN  /\ gen.table.name \notin DOMAIN metadata =>
                          first.status = "failed" /\ first.raised = "KeyError"
                    /\ (Existing(gen.table) /\ fault = "none") =>
                          first.scan = db[gen.table.name].rows

\* a successful write to the table of an iterator whose first batch has not
\* been requested
C19_Witness ==
    /\ gen.status = "created"
    /\ last.op = "write"
    /\ last.raised = ""
    /\ last.name = gen.table.name
    /\ db[last.name].rows # <<>>

====
